---------------------------- MODULE Spec2Model ----------------------------
(***************************************************************************)
(* A model of ezgl (src/lib.rs): the acquisition of a GL context for a     *)
(* window (Ezgl::new / Ezgl::new_with_debug_callback), the operations on a *)
(* live result (resize, swap_buffers), the configuration selection done by *)
(* the reduce closure, and the default debug callback.                     *)
(*                                                                         *)
(* Three specifications share the module:                                  *)
(*   Spec        the acquisition and the life of its result;               *)
(*   SpecSelect  the configuration selection as a pure function of the     *)
(*               enumerated configurations and the sample preference;      *)
(*   SpecDebug   default_debug_callback as a pure function of its codes.   *)
(***************************************************************************)
EXTENDS Integers, Sequences, FiniteSets

(***************************************************************************)
(* Bounds of the model.                                                    *)
(***************************************************************************)
\* the longest sequence of configurations the platform enumerates
MaxConfigs == 4
\* the number of resize calls followed on a live result
MaxResizes == 2
\* the largest message id handed to the debug callback
MaxId == 1

\* sample counts a configuration may report (GlConfig::num_samples, a u8)
SampleCounts == {0, 2, 4, 8}
\* sample counts a caller may prefer (prefer_samples: Option<u8>)
PreferCounts == {0, 4, 16}

\* Option<T>: None is the empty sequence, Some(x) the sequence of x alone
None == << >>
Some(x) == << x >>

ConfigSeqs == UNION { [1..n -> SampleCounts] : n \in 0..MaxConfigs }
Preferences == {None} \cup { Some(p) : p \in PreferCounts }
\* widths and heights passed to new / resize (u32): zero and two others
Dims == {0, 1, 2}

VARIABLES
    \* ---- Spec: Ezgl::new_with_debug_callback and the live result
    pc,              \* the statement of new_with_debug_callback that runs next
    args,            \* the arguments of the call
    result,          \* what the call returned: "none" while it runs
    calls,           \* the platform calls made so far, each with its outcome
    display,         \* whether the glutin Display exists
    config,          \* the selected configuration (Option)
    surface,         \* the window surface (Option)
    context,         \* the GL context (Option)
    glow,            \* the glow Context: loaded entry points, debug callback
    resizes,         \* the resize calls made on the live result, in order
    platformResizes, \* the Surface::resize calls that reached the platform
    swapResult,      \* what the last swap_buffers returned
    \* ---- SpecSelect: the reduce over the enumerated configurations
    found,           \* the sequence find_configs yielded (sample counts)
    prefer_samples,  \* the sample preference (Option)
    selPc,           \* "enumerated" before the reduce, "reduced" after
    selection,       \* the result of the reduce (Option of a configuration)
    \* ---- SpecDebug: default_debug_callback
    dbgIn,           \* the codes of the last call (Option)
    printed          \* the line the last call printed (Option)

acquireVars == << pc, args, result, calls, display, config, surface, context, glow,
                  resizes, platformResizes, swapResult >>
selectVars == << found, prefer_samples, selPc, selection >>
debugVars == << dbgIn, printed >>
vars == << acquireVars, selectVars, debugVars >>

(***************************************************************************)
(* Configuration selection: lib.rs 173-192.                                *)
(***************************************************************************)
\* the i-th enumerated configuration: its place and its num_samples()
Cfg(cs, i) == [idx |-> i, num_samples |-> cs[i]]

\* mutant: a preference is ignored, the closure always accumulates the maximum
ClosureIgnoresPreference(prefer, accum, cfg) ==
    IF cfg.num_samples > accum.num_samples THEN cfg ELSE accum

\* mutant: ties go to the later configuration (>= for >)
ClosureLaterOnTie(prefer, accum, cfg) ==
    IF prefer # None
    THEN IF cfg.num_samples = prefer[1] THEN cfg ELSE accum
    ELSE IF cfg.num_samples >= accum.num_samples THEN cfg ELSE accum

\* mutant: a configuration that already matches the preference is kept
ClosureKeepsFirstMatch(prefer, accum, cfg) ==
    IF prefer # None
    THEN IF cfg.num_samples = prefer[1] /\ accum.num_samples # prefer[1]
         THEN cfg ELSE accum
    ELSE IF cfg.num_samples > accum.num_samples THEN cfg ELSE accum

\* the closure given to reduce, lib.rs 176-190
Closure(prefer, accum, cfg) ==
    IF prefer # None
    THEN IF cfg.num_samples = prefer[1] THEN cfg ELSE accum
    ELSE IF cfg.num_samples > accum.num_samples THEN cfg ELSE accum

RECURSIVE Fold(_, _, _, _)
\* Iterator::fold from the i-th element on
Fold(prefer, accum, cs, i) ==
    IF i > Len(cs) THEN accum
    ELSE Fold(prefer, Closure(prefer, accum, Cfg(cs, i)), cs, i + 1)

\* Iterator::reduce: None for an empty iterator, else the fold seeded with
\* the first element
Reduce(cs, prefer) ==
    IF Len(cs) = 0 THEN None ELSE Some(Fold(prefer, Cfg(cs, 1), cs, 2))

(***************************************************************************)
(* Ezgl::new_with_debug_callback, lib.rs 156-227, one action per platform  *)
(* call.  Every platform call succeeds or fails as the platform decides.   *)
(***************************************************************************)
UserCallbacks == {"user_callback"}
Args == [prefer_samples : Preferences, width : Dims, height : Dims,
         debug_callback : {"default_debug_callback"} \cup UserCallbacks]

\* one platform call in the log: cfg is the place of the configuration the
\* call was given (0 when it takes none), empty whether it is a find_configs
\* that succeeded and yielded no configuration
Call(op, ok, cfg) == [op |-> op, ok |-> ok, cfg |-> cfg, empty |-> FALSE]
Enumerated(cs) ==
    [op |-> "find_configs", ok |-> TRUE, cfg |-> 0, empty |-> (Len(cs) = 0)]

\* mutant: a platform error is wrapped in the handle-resolution variant
FromGlutinErrorAsRwh == "Rwh"

\* lib.rs 32-33: `?` turns a glutin::error::Error into Error::Glutin
FromGlutinError == "Glutin"

\* lib.rs 37-38: `?` turns a raw_window_handle::HandleError into Error::Rwh
FromHandleError == "Rwh"

\* `?` on an Err, or a panic: the function is left and its locals are dropped
Leave(how) ==
    /\ result' = how
    /\ pc' = IF how = "panic" THEN "panicked" ELSE "returned"
    /\ display' = FALSE
    /\ config' = None
    /\ surface' = None
    /\ context' = None
    /\ glow' = [loaded |-> FALSE, debug_callback |-> "none"]

\* the call starts with the statement at lib.rs 168
Enter(a) ==
    /\ pc = "idle"
    /\ args' = Some(a)
    /\ pc' = "display_handle"
    /\ UNCHANGED << result, calls, display, config, surface, context, glow,
                    resizes, platformResizes, swapResult >>

\* Ezgl::new, lib.rs 135-153: the default debug callback is passed on
new ==
    /\ \E a \in Args : a.debug_callback = "default_debug_callback" /\ Enter(a)
    /\ UNCHANGED << selectVars, debugVars >>

\* Ezgl::new_with_debug_callback called directly, lib.rs 156-167
new_with_debug_callback ==
    /\ \E a \in Args : a.debug_callback \in UserCallbacks /\ Enter(a)
    /\ UNCHANGED << selectVars, debugVars >>

\* lib.rs 168: window.display_handle()?
display_handle ==
    /\ pc = "display_handle"
    /\ \E ok \in BOOLEAN :
        /\ calls' = Append(calls, Call("display_handle", ok, 0))
        /\ IF ok
           THEN /\ pc' = "window_handle"
                /\ UNCHANGED << result, display, config, surface, context, glow >>
           ELSE Leave(FromHandleError)
    /\ UNCHANGED << args, resizes, platformResizes, swapResult >>
    /\ UNCHANGED << selectVars, debugVars >>

\* lib.rs 169: window.window_handle()?
window_handle ==
    /\ pc = "window_handle"
    /\ \E ok \in BOOLEAN :
        /\ calls' = Append(calls, Call("window_handle", ok, 0))
        /\ IF ok
           THEN /\ pc' = "create_display"
                /\ UNCHANGED << result, display, config, surface, context, glow >>
           ELSE Leave(FromHandleError)
    /\ UNCHANGED << args, resizes, platformResizes, swapResult >>
    /\ UNCHANGED << selectVars, debugVars >>

\* lib.rs 170 and 276-297: create_display(...)?, Display::new
create_display ==
    /\ pc = "create_display"
    /\ \E ok \in BOOLEAN :
        /\ calls' = Append(calls, Call("create_display", ok, 0))
        /\ IF ok
           THEN /\ pc' = "find_configs"
                /\ display' = TRUE
                /\ UNCHANGED << result, config, surface, context, glow >>
           ELSE Leave(FromGlutinError)
    /\ UNCHANGED << args, resizes, platformResizes, swapResult >>
    /\ UNCHANGED << selectVars, debugVars >>

\* mutant: an empty enumeration is returned as an error instead of panicking
find_configs_empty_is_error ==
    /\ pc = "find_configs"
    /\ \/ /\ calls' = Append(calls, Call("find_configs", FALSE, 0))
          /\ Leave(FromGlutinError)
       \/ \E cs \in ConfigSeqs :
            LET chosen == Reduce(cs, args[1].prefer_samples) IN
            /\ calls' = Append(calls, Enumerated(cs))
            /\ IF chosen = None
               THEN Leave(FromGlutinError)
               ELSE /\ config' = chosen
                    /\ pc' = "surface_attributes"
                    /\ UNCHANGED << result, display, surface, context, glow >>
    /\ UNCHANGED << args, resizes, platformResizes, swapResult >>
    /\ UNCHANGED << selectVars, debugVars >>

\* lib.rs 171-192: display.find_configs(template)?, the reduce over what it
\* yields, and the expect on the reduce's result
find_configs ==
    /\ pc = "find_configs"
    /\ \/ /\ calls' = Append(calls, Call("find_configs", FALSE, 0))
          /\ Leave(FromGlutinError)
       \/ \E cs \in ConfigSeqs :
            LET chosen == Reduce(cs, args[1].prefer_samples) IN
            /\ calls' = Append(calls, Enumerated(cs))
            /\ IF chosen = None
               THEN Leave("panic")
               ELSE /\ config' = chosen
                    /\ pc' = "surface_attributes"
                    /\ UNCHANGED << result, display, surface, context, glow >>
    /\ UNCHANGED << args, resizes, platformResizes, swapResult >>
    /\ UNCHANGED << selectVars, debugVars >>

\* mutant: the dimensions are passed on unchecked (no unwrap of NonZeroU32)
surface_attributes_unchecked ==
    /\ pc = "surface_attributes"
    /\ \E ok \in BOOLEAN :
        /\ calls' = Append(calls, Call("window_handle", ok, 0))
        /\ IF ~ok
           THEN Leave(FromHandleError)
           ELSE /\ pc' = "create_window_surface"
                /\ UNCHANGED << result, display, config, surface, context, glow >>
    /\ UNCHANGED << args, resizes, platformResizes, swapResult >>
    /\ UNCHANGED << selectVars, debugVars >>

\* lib.rs 194 and 308-321: surface_attributes(&window, width, height)?:
\* window.window_handle()? first, then NonZeroU32::new(..).unwrap() on the
\* width and on the height
surface_attributes ==
    /\ pc = "surface_attributes"
    /\ \E ok \in BOOLEAN :
        /\ calls' = Append(calls, Call("window_handle", ok, 0))
        /\ IF ~ok
           THEN Leave(FromHandleError)
           ELSE IF args[1].width = 0 \/ args[1].height = 0
           THEN Leave("panic")
           ELSE /\ pc' = "create_window_surface"
                /\ UNCHANGED << result, display, config, surface, context, glow >>
    /\ UNCHANGED << args, resizes, platformResizes, swapResult >>
    /\ UNCHANGED << selectVars, debugVars >>

\* lib.rs 195: display.create_window_surface(&config, &attributes)?
create_window_surface ==
    /\ pc = "create_window_surface"
    /\ \E ok \in BOOLEAN :
        /\ calls' = Append(calls, Call("create_window_surface", ok, config[1].idx))
        /\ IF ok
           THEN /\ surface' = Some([config |-> config[1].idx,
                                    width |-> args[1].width,
                                    height |-> args[1].height])
                /\ pc' = "create_context"
                /\ UNCHANGED << result, display, config, context, glow >>
           ELSE Leave(FromGlutinError)
    /\ UNCHANGED << args, resizes, platformResizes, swapResult >>
    /\ UNCHANGED << selectVars, debugVars >>

\* mutant: no or_else, the first failure is returned
create_context_no_fallback ==
    /\ pc = "create_context"
    /\ \E ok \in BOOLEAN :
        /\ calls' = Append(calls, Call("create_context", ok, config[1].idx))
        /\ IF ok
           THEN /\ context' = Some([api |-> "OpenGl", config |-> config[1].idx,
                                    current |-> FALSE])
                /\ pc' = "make_current"
                /\ UNCHANGED << result, display, config, surface, glow >>
           ELSE Leave(FromGlutinError)
    /\ UNCHANGED << args, resizes, platformResizes, swapResult >>
    /\ UNCHANGED << selectVars, debugVars >>

\* mutant: the entry points are loaded right after the context is created,
\* make_current is left out
create_context_then_load ==
    /\ pc = "create_context"
    /\ \E ok \in BOOLEAN :
        /\ calls' = Append(calls, Call("create_context", ok, config[1].idx))
        /\ IF ok
           THEN /\ context' = Some([api |-> "OpenGl", config |-> config[1].idx,
                                    current |-> FALSE])
                /\ pc' = "from_loader_function"
           ELSE /\ pc' = "create_context_fallback"
                /\ UNCHANGED context
    /\ UNCHANGED << args, result, display, config, surface, glow,
                    resizes, platformResizes, swapResult >>
    /\ UNCHANGED << selectVars, debugVars >>

\* lib.rs 196-204: display.create_context(&config, &context_attributes); an
\* Err goes to the or_else closure
create_context ==
    /\ pc = "create_context"
    /\ \E ok \in BOOLEAN :
        /\ calls' = Append(calls, Call("create_context", ok, config[1].idx))
        /\ IF ok
           THEN /\ context' = Some([api |-> "OpenGl", config |-> config[1].idx,
                                    current |-> FALSE])
                /\ pc' = "make_current"
           ELSE /\ pc' = "create_context_fallback"
                /\ UNCHANGED context
    /\ UNCHANGED << args, result, display, config, surface, glow,
                    resizes, platformResizes, swapResult >>
    /\ UNCHANGED << selectVars, debugVars >>

\* lib.rs 205: or_else(|_| display.create_context(&config,
\* &fallback_context_attributes))?
create_context_fallback ==
    /\ pc = "create_context_fallback"
    /\ \E ok \in BOOLEAN :
        /\ calls' = Append(calls, Call("create_context_gles", ok, config[1].idx))
        /\ IF ok
           THEN /\ context' = Some([api |-> "Gles", config |-> config[1].idx,
                                    current |-> FALSE])
                /\ pc' = "make_current"
                /\ UNCHANGED << result, display, config, surface, glow >>
           ELSE Leave(FromGlutinError)
    /\ UNCHANGED << args, resizes, platformResizes, swapResult >>
    /\ UNCHANGED << selectVars, debugVars >>

\* mutant: the result of make_current is not checked
make_current_unchecked ==
    /\ pc = "make_current"
    /\ \E ok \in BOOLEAN :
        /\ calls' = Append(calls, Call("make_current", ok, 0))
        /\ context' = Some([context[1] EXCEPT !.current = ok])
        /\ pc' = "from_loader_function"
    /\ UNCHANGED << args, result, display, config, surface, glow,
                    resizes, platformResizes, swapResult >>
    /\ UNCHANGED << selectVars, debugVars >>

\* lib.rs 208: context.make_current(&surface)?
make_current ==
    /\ pc = "make_current"
    /\ \E ok \in BOOLEAN :
        /\ calls' = Append(calls, Call("make_current", ok, 0))
        /\ IF ok
           THEN /\ context' = Some([context[1] EXCEPT !.current = TRUE])
                /\ pc' = "from_loader_function"
                /\ UNCHANGED << result, display, config, surface, glow >>
           ELSE Leave(FromGlutinError)
    /\ UNCHANGED << args, resizes, platformResizes, swapResult >>
    /\ UNCHANGED << selectVars, debugVars >>

\* lib.rs 209-214: Context::from_loader_function over display.get_proc_address
from_loader_function ==
    /\ pc = "from_loader_function"
    /\ calls' = Append(calls, Call("from_loader_function", TRUE, 0))
    /\ glow' = [glow EXCEPT !.loaded = TRUE]
    /\ pc' = "debug_message_callback"
    /\ UNCHANGED << args, result, display, config, surface, context,
                    resizes, platformResizes, swapResult >>
    /\ UNCHANGED << selectVars, debugVars >>

\* lib.rs 216-218: glow.debug_message_callback(debug_callback)
debug_message_callback ==
    /\ pc = "debug_message_callback"
    /\ calls' = Append(calls, Call("debug_message_callback", TRUE, 0))
    /\ glow' = [glow EXCEPT !.debug_callback = args[1].debug_callback]
    /\ pc' = "return_ok"
    /\ UNCHANGED << args, result, display, config, surface, context,
                    resizes, platformResizes, swapResult >>
    /\ UNCHANGED << selectVars, debugVars >>

\* lib.rs 220-226: Ok(Self { surface, glutin, glow }); the locals that are
\* not moved into the result (display, config) are dropped
return_ok ==
    /\ pc = "return_ok"
    /\ result' = "Ok"
    /\ pc' = "live"
    /\ display' = FALSE
    /\ config' = None
    /\ UNCHANGED << args, calls, surface, context, glow,
                    resizes, platformResizes, swapResult >>
    /\ UNCHANGED << selectVars, debugVars >>

(***************************************************************************)
(* The operations on a live result.                                        *)
(***************************************************************************)
\* mutant: the guard returns only when both dimensions are zero (&& for ||)
ResizeGuardBoth(width, height) ==
    /\ resizes' = Append(resizes, << width, height >>)
    /\ IF width = 0 /\ height = 0
       THEN UNCHANGED << surface, platformResizes >>
       ELSE /\ platformResizes' = Append(platformResizes, << width, height >>)
            /\ surface' = Some([surface[1] EXCEPT !.width = width,
                                                  !.height = height])

\* lib.rs 233-243: Ezgl::resize: the guard, then Surface::resize
Resize(width, height) ==
    /\ resizes' = Append(resizes, << width, height >>)
    /\ IF width = 0 \/ height = 0
       THEN UNCHANGED << surface, platformResizes >>
       ELSE /\ platformResizes' = Append(platformResizes, << width, height >>)
            /\ surface' = Some([surface[1] EXCEPT !.width = width,
                                                  !.height = height])

resize ==
    /\ pc = "live"
    /\ Len(resizes) < MaxResizes
    /\ \E width \in Dims, height \in Dims : Resize(width, height)
    /\ UNCHANGED << pc, args, result, calls, display, config, context, glow,
                    swapResult >>
    /\ UNCHANGED << selectVars, debugVars >>


\* lib.rs 248-251: Ezgl::swap_buffers
swap_buffers ==
    /\ pc = "live"
    /\ \E ok \in BOOLEAN : swapResult' = IF ok THEN "Ok" ELSE FromGlutinError
    /\ UNCHANGED << pc, args, result, calls, display, config, surface, context,
                    glow, resizes, platformResizes >>
    /\ UNCHANGED << selectVars, debugVars >>

(***************************************************************************)
(* The reduce of lib.rs 173-192 on its own: the enumerated sequence and    *)
(* the preference are drawn by InitSelect, reduce_expect applies the       *)
(* reduce and the expect.                                                  *)
(***************************************************************************)
reduce_expect ==
    /\ selPc = "enumerated"
    /\ selection' = Reduce(found, prefer_samples)
    /\ selPc' = IF selection' = None THEN "panicked" ELSE "selected"
    /\ UNCHANGED << found, prefer_samples >>
    /\ UNCHANGED << acquireVars, debugVars >>

(***************************************************************************)
(* default_debug_callback, lib.rs 41-75.  The codes are glow's constants.  *)
(***************************************************************************)
DEBUG_SEVERITY_HIGH == 37190
DEBUG_SEVERITY_MEDIUM == 37191
DEBUG_SEVERITY_LOW == 37192
DEBUG_SEVERITY_NOTIFICATION == 33387
DEBUG_SOURCE_API == 33350
DEBUG_SOURCE_WINDOW_SYSTEM == 33351
DEBUG_SOURCE_SHADER_COMPILER == 33352
DEBUG_SOURCE_THIRD_PARTY == 33353
DEBUG_SOURCE_APPLICATION == 33354
DEBUG_SOURCE_OTHER == 33355
DEBUG_TYPE_ERROR == 33356
DEBUG_TYPE_DEPRECATED_BEHAVIOR == 33357
DEBUG_TYPE_UNDEFINED_BEHAVIOR == 33358
DEBUG_TYPE_PORTABILITY == 33359
DEBUG_TYPE_PERFORMANCE == 33360
DEBUG_TYPE_OTHER == 33361
DEBUG_TYPE_MARKER == 33384
DEBUG_TYPE_PUSH_GROUP == 33385
DEBUG_TYPE_POP_GROUP == 33386

\* codes that are none of glow's debug constants
UnknownCodes == {0, 33349, 33362, 37193}
DebugCodes ==
    { DEBUG_SEVERITY_HIGH, DEBUG_SEVERITY_MEDIUM, DEBUG_SEVERITY_LOW,
      DEBUG_SEVERITY_NOTIFICATION,
      DEBUG_SOURCE_API, DEBUG_SOURCE_WINDOW_SYSTEM, DEBUG_SOURCE_SHADER_COMPILER,
      DEBUG_SOURCE_THIRD_PARTY, DEBUG_SOURCE_APPLICATION, DEBUG_SOURCE_OTHER,
      DEBUG_TYPE_ERROR, DEBUG_TYPE_DEPRECATED_BEHAVIOR,
      DEBUG_TYPE_UNDEFINED_BEHAVIOR, DEBUG_TYPE_PORTABILITY,
      DEBUG_TYPE_PERFORMANCE, DEBUG_TYPE_OTHER, DEBUG_TYPE_MARKER,
      DEBUG_TYPE_PUSH_GROUP, DEBUG_TYPE_POP_GROUP } \cup UnknownCodes
DebugInputs == [source : DebugCodes, type_ : DebugCodes, id : 0..MaxId,
                severity : DebugCodes, message : {"msg"}]

\* mutant: the NOTIFICATION arm is missing
SeverityNameNoNotification(severity) ==
    CASE severity = DEBUG_SEVERITY_HIGH -> "HIGH"
      [] severity = DEBUG_SEVERITY_MEDIUM -> "MEDIUM"
      [] severity = DEBUG_SEVERITY_LOW -> "LOW"
      [] OTHER -> "unknown"

\* lib.rs 45-51: match severity
SeverityName(severity) ==
    CASE severity = DEBUG_SEVERITY_HIGH -> "HIGH"
      [] severity = DEBUG_SEVERITY_MEDIUM -> "MEDIUM"
      [] severity = DEBUG_SEVERITY_LOW -> "LOW"
      [] severity = DEBUG_SEVERITY_NOTIFICATION -> "NOTIFICATION"
      [] OTHER -> "unknown"

\* lib.rs 52-60: match source
SourceName(source) ==
    CASE source = DEBUG_SOURCE_API -> "API"
      [] source = DEBUG_SOURCE_WINDOW_SYSTEM -> "WINDOW_SYSTEM"
      [] source = DEBUG_SOURCE_SHADER_COMPILER -> "SHADER_COMPILER"
      [] source = DEBUG_SOURCE_THIRD_PARTY -> "THIRD_PARTY"
      [] source = DEBUG_SOURCE_APPLICATION -> "APPLICATION"
      [] source = DEBUG_SOURCE_OTHER -> "OTHER"
      [] OTHER -> "unknown"

\* lib.rs 61-72: match type_
TypeName(type_) ==
    CASE type_ = DEBUG_TYPE_ERROR -> "ERROR"
      [] type_ = DEBUG_TYPE_DEPRECATED_BEHAVIOR -> "DEPRECATED_BEHAVIOR"
      [] type_ = DEBUG_TYPE_UNDEFINED_BEHAVIOR -> "UNDEFINED_BEHAVIOR"
      [] type_ = DEBUG_TYPE_PORTABILITY -> "PORTABILITY"
      [] type_ = DEBUG_TYPE_PERFORMANCE -> "PERFORMANCE"
      [] type_ = DEBUG_TYPE_MARKER -> "MARKER"
      [] type_ = DEBUG_TYPE_PUSH_GROUP -> "PUSH_GROUP"
      [] type_ = DEBUG_TYPE_POP_GROUP -> "POP_GROUP"
      [] type_ = DEBUG_TYPE_OTHER -> "OTHER"
      [] OTHER -> "unknown"

\* lib.rs 42-74: the pieces of the line println! writes, in the order of the
\* format string "DEBUG: {}: severity={} source={} type={} id={}"
DebugLine(source, type_, id, severity, message) ==
    << "DEBUG: ", message,
       ": severity=", SeverityName(severity),
       " source=", SourceName(source),
       " type=", TypeName(type_),
       " id=", id >>

\* lib.rs 41: default_debug_callback, applied to the codes InitDebug drew
default_debug_callback ==
    /\ printed = None
    /\ printed' = Some(DebugLine(dbgIn.source, dbgIn.type_, dbgIn.id,
                                 dbgIn.severity, dbgIn.message))
    /\ UNCHANGED dbgIn
    /\ UNCHANGED << acquireVars, selectVars >>

(***************************************************************************)
(* The specifications.                                                     *)
(***************************************************************************)
AcquireIdle ==
    /\ pc = "idle"
    /\ args = None
    /\ result = "none"
    /\ calls = << >>
    /\ display = FALSE
    /\ config = None
    /\ surface = None
    /\ context = None
    /\ glow = [loaded |-> FALSE, debug_callback |-> "none"]
    /\ resizes = << >>
    /\ platformResizes = << >>
    /\ swapResult = "none"

SelectIdle ==
    /\ found = << >>
    /\ prefer_samples = None
    /\ selPc = "idle"
    /\ selection = None

DebugIdle ==
    /\ dbgIn = [source |-> 0, type_ |-> 0, id |-> 0, severity |-> 0,
                message |-> "msg"]
    /\ printed = Some(<< >>)

Init == AcquireIdle /\ SelectIdle /\ DebugIdle

Next ==
    \/ new
    \/ new_with_debug_callback
    \/ display_handle
    \/ window_handle
    \/ create_display
    \/ find_configs
    \/ surface_attributes
    \/ create_window_surface
    \/ create_context
    \/ create_context_fallback
    \/ make_current
    \/ from_loader_function
    \/ debug_message_callback
    \/ return_ok
    \/ resize
    \/ swap_buffers

Spec == Init /\ [][Next]_vars

InitSelect ==
    /\ AcquireIdle
    /\ DebugIdle
    /\ found \in ConfigSeqs
    /\ prefer_samples \in Preferences
    /\ selPc = "enumerated"
    /\ selection = None

NextSelect == reduce_expect

SpecSelect == InitSelect /\ [][NextSelect]_vars

InitDebug ==
    /\ AcquireIdle
    /\ SelectIdle
    /\ dbgIn \in DebugInputs
    /\ printed = None

NextDebug == default_debug_callback

SpecDebug == InitDebug /\ [][NextDebug]_vars

(***************************************************************************)
(* Claims about the configuration selection, checked under SpecSelect.     *)
(***************************************************************************)
\* the greatest sample count of a non-empty sequence
MaxOf(cs) == CHOOSE m \in { cs[i] : i \in DOMAIN cs } :
                \A i \in DOMAIN cs : cs[i] <= m
\* the places of the configurations with sample count v
PlacesOf(cs, v) == { i \in DOMAIN cs : cs[i] = v }
\* the least and the greatest member of a non-empty set of places
Least(S) == CHOOSE i \in S : \A j \in S : i <= j
Greatest(S) == CHOOSE i \in S : \A j \in S : j <= i
\* the reduce was applied to a non-empty sequence
Selected == selPc = "selected" /\ selection # None
\* the selected configuration is one of the enumerated ones
SelectionIsEnumerated ==
    /\ selection[1].idx \in DOMAIN found
    /\ selection[1].num_samples = found[selection[1].idx]

\* C1: with no sample preference, the configuration selected from a non-empty
\* enumeration has the greatest sample count of the enumeration, and among
\* the configurations with that count it is the first in enumeration order.
C1_NoPreferenceFirstMax ==
    (Selected /\ prefer_samples = None) =>
        /\ SelectionIsEnumerated
        /\ selection[1].num_samples = MaxOf(found)
        /\ selection[1].idx = Least(PlacesOf(found, MaxOf(found)))

\* the greatest count occurs twice, after a smaller one, and the first
\* occurrence was selected
C1_Witness ==
    /\ Selected
    /\ prefer_samples = None
    /\ found = << 0, 8, 4, 8 >>
    /\ selection[1] = [idx |-> 2, num_samples |-> 8]

\* C2: with a sample preference p that some enumerated configuration has
\* exactly, the selected configuration has sample count p, wherever the
\* matching configuration sits and whatever larger counts are enumerated.
C2_PreferredCountSelected ==
    (Selected /\ prefer_samples # None
        /\ PlacesOf(found, prefer_samples[1]) # {}) =>
        /\ SelectionIsEnumerated
        /\ selection[1].num_samples = prefer_samples[1]

\* the one match is in first place and a larger count follows it
C2_Witness ==
    /\ Selected
    /\ prefer_samples = Some(4)
    /\ found = << 4, 8, 0, 2 >>
    /\ selection[1] = [idx |-> 1, num_samples |-> 4]

\* C3 as stated: with a sample preference p, of several configurations with
\* sample count exactly p the first in enumeration order is selected.
C3_FirstMatchSelected ==
    (Selected /\ prefer_samples # None
        /\ PlacesOf(found, prefer_samples[1]) # {}) =>
        selection[1].idx = Least(PlacesOf(found, prefer_samples[1]))

\* C3 as amended: with a sample preference p, of several configurations with
\* sample count exactly p the last in enumeration order is selected.
C3_LastMatchSelected ==
    (Selected /\ prefer_samples # None
        /\ PlacesOf(found, prefer_samples[1]) # {}) =>
        /\ SelectionIsEnumerated
        /\ selection[1].idx = Greatest(PlacesOf(found, prefer_samples[1]))

\* three configurations match the preference and the last one was selected
C3_Witness ==
    /\ Selected
    /\ prefer_samples = Some(4)
    /\ found = << 4, 8, 4, 4 >>
    /\ selection[1] = [idx |-> 4, num_samples |-> 4]

\* C4: with a sample preference p that no enumerated configuration has
\* exactly, the configuration selected from a non-empty enumeration is the
\* one with the greatest sample count, whatever the enumeration order.
C4_UnmatchedFallsBackToMax ==
    (Selected /\ prefer_samples # None
        /\ PlacesOf(found, prefer_samples[1]) = {}) =>
        /\ selection[1].num_samples = MaxOf(found)
        /\ selection[1].idx = Least(PlacesOf(found, MaxOf(found)))

(***************************************************************************)
(* Claims about the acquisition and the live result, checked under Spec.   *)
(***************************************************************************)
\* the places in the log of the calls of one platform operation
CallsOf(op) == { i \in DOMAIN calls : calls[i].op = op }
LastCall == calls[Len(calls)]

\* C5: the GL ES context request is attempted at most once, only right after
\* a failed default request and always after such a failure; a successful
\* default request is followed by no GL ES request; when both fail the call
\* returns an error with no further attempt; when the default fails and
\* GL ES succeeds the call goes on with the GL ES context; both attempts are
\* given the configuration the surface was created with.
C5_ContextFallback ==
    /\ Cardinality(CallsOf("create_context")) <= 1
    /\ Cardinality(CallsOf("create_context_gles")) <= 1
    /\ \A i \in CallsOf("create_context") :
        /\ i > 1
        /\ calls[i - 1].op = "create_window_surface"
        /\ calls[i - 1].ok
        /\ calls[i - 1].cfg = calls[i].cfg
        /\ calls[i].ok =>
            /\ CallsOf("create_context_gles") = {}
            /\ context # None => context[1].api = "OpenGl"
        /\ ~calls[i].ok =>
            IF i = Len(calls)
            THEN pc = "create_context_fallback" /\ result = "none"
            ELSE calls[i + 1].op = "create_context_gles"
    /\ \A i \in CallsOf("create_context_gles") :
        /\ i > 1
        /\ calls[i - 1].op = "create_context"
        /\ ~calls[i - 1].ok
        /\ calls[i - 1].cfg = calls[i].cfg
        /\ ~calls[i].ok =>
            /\ i = Len(calls)
            /\ result = "Glutin"
            /\ pc = "returned"
            /\ context = None
        /\ calls[i].ok =>
            /\ context # None => context[1].api = "Gles"
            /\ IF i = Len(calls)
               THEN pc = "make_current" /\ result = "none" /\ context # None
               ELSE calls[i + 1].op = "make_current"

\* the default request failed, the GL ES request succeeded and the call
\* returned Ok with the GL ES context
C5_Witness ==
    /\ result = "Ok"
    /\ context[1].api = "Gles"
    /\ \E i \in CallsOf("create_context") : ~calls[i].ok

\* C6: whenever the call has returned Ok, the context was made current on
\* the surface created by that call, the GL entry points are loaded and the
\* debug callback passed to the call (the default one for Ezgl::new) is
\* registered.
C6_OkPostcondition ==
    result = "Ok" =>
        /\ pc = "live"
        /\ surface # None
        /\ context # None
        /\ context[1].current
        /\ context[1].config = surface[1].config
        /\ glow.loaded
        /\ glow.debug_callback # "none"
        /\ glow.debug_callback = args[1].debug_callback
        /\ \E i \in CallsOf("create_window_surface") :
            \E j \in CallsOf("make_current") :
                /\ i < j
                /\ calls[i].ok
                /\ calls[j].ok
                /\ \E k \in CallsOf("from_loader_function") :
                    \E l \in CallsOf("debug_message_callback") : j < k /\ k < l

\* Ezgl::new returned Ok: the context is current and the default callback
\* is registered
C6_Witness ==
    /\ result = "Ok"
    /\ context[1].current
    /\ glow.loaded
    /\ glow.debug_callback = "default_debug_callback"

\* both dimensions of a resize call are non-zero
NonZero(r) == r[1] # 0 /\ r[2] # 0

RECURSIVE LastNonZero(_, _)
\* the most recent call of the history h with both dimensions non-zero, or
\* init when there is none
LastNonZero(h, init) ==
    IF h = << >> THEN init
    ELSE IF NonZero(h[Len(h)]) THEN h[Len(h)]
    ELSE LastNonZero(SubSeq(h, 1, Len(h) - 1), init)

\* after any sequence of resize calls the surface has the dimensions of the
\* most recent call with both dimensions non-zero (the initial ones when
\* there is none), and exactly those calls reached the platform
C7_SurfaceFollowsHistory ==
    pc = "live" =>
        /\ << surface[1].width, surface[1].height >> =
              LastNonZero(resizes, << args[1].width, args[1].height >>)
        /\ platformResizes = SelectSeq(resizes, NonZero)

\* what one resize call changes
C7_ResizeStep ==
    resizes' # resizes =>
        LET r == resizes'[Len(resizes')] IN
        /\ UNCHANGED << pc, args, result, calls, display, config, context, glow,
                        swapResult >>
        /\ IF NonZero(r)
           THEN /\ surface'[1].width = r[1]
                /\ surface'[1].height = r[2]
                /\ surface'[1].config = surface[1].config
                /\ platformResizes' = Append(platformResizes, r)
           ELSE UNCHANGED << surface, platformResizes >>

\* C7: a resize with a zero width or height makes no platform call and
\* leaves the surface and all other state unchanged; a resize with both
\* dimensions non-zero sets the surface dimensions to exactly its arguments;
\* hence the surface always has the dimensions of the most recent non-zero
\* call, or the initial ones.
C7_Resize == [][C7_ResizeStep]_vars /\ []C7_SurfaceFollowsHistory

\* a non-zero resize changed the dimensions and a later zero resize left
\* them alone
C7_Witness ==
    /\ pc = "live"
    /\ resizes = << << 2, 1 >>, << 0, 2 >> >>
    /\ args[1].width = 1
    /\ args[1].height = 1
    /\ surface[1].width = 2
    /\ surface[1].height = 1

HandleOps == {"display_handle", "window_handle"}
PlatformOps == {"create_display", "find_configs", "create_window_surface",
                "create_context_gles", "make_current"}

\* C8: a failed display_handle or window_handle returns Error::Rwh, a failed
\* display creation, find_configs, surface creation, second context
\* creation or make_current returns Error::Glutin, and so does a failed
\* swap_buffers; the failing call is the last one the acquisition makes; the
\* only failure that is not returned is that of the first context request.
C8_ErrorTaxonomy ==
    /\ result = "Rwh" <=>
        (calls # << >> /\ ~LastCall.ok /\ LastCall.op \in HandleOps)
    /\ result = "Glutin" <=>
        (calls # << >> /\ ~LastCall.ok /\ LastCall.op \in PlatformOps)
    /\ result \in {"Rwh", "Glutin"} => pc = "returned"
    /\ \A i \in DOMAIN calls :
        (~calls[i].ok /\ i < Len(calls)) =>
            /\ calls[i].op = "create_context"
            /\ calls[i + 1].op = "create_context_gles"
    /\ swapResult \in {"none", "Ok", "Glutin"}

\* both context requests failed and the call returned the platform variant
C8_Witness ==
    /\ result = "Glutin"
    /\ Len(calls) = 8
    /\ LastCall.op = "create_context_gles"
    /\ ~calls[7].ok

\* C9: when find_configs succeeds and yields no configuration the call
\* panics, it returns no Error, and no surface or context was created; when
\* it yields at least one configuration, exactly one is selected, whatever
\* the sample preference.
C9_EmptyEnumerationPanics ==
    \A i \in CallsOf("find_configs") :
        /\ (calls[i].ok /\ calls[i].empty) =>
            /\ i = Len(calls)
            /\ result = "panic"
            /\ pc = "panicked"
            /\ surface = None
            /\ context = None
            /\ CallsOf("create_window_surface") = {}
            /\ CallsOf("create_context") = {}
        /\ (calls[i].ok /\ ~calls[i].empty /\ i = Len(calls)) =>
            /\ result = "none"
            /\ pc = "surface_attributes"
            /\ Len(config) = 1
            /\ config[1].idx >= 1

\* find_configs yielded nothing and the call panicked
C9_Witness ==
    /\ result = "panic"
    /\ calls # << >>
    /\ LastCall.op = "find_configs"
    /\ LastCall.empty

(***************************************************************************)
(* Claim about default_debug_callback, checked under SpecDebug.            *)
(***************************************************************************)
\* the documented names of the documented codes
SeverityNames ==
    { << DEBUG_SEVERITY_HIGH, "HIGH" >>, << DEBUG_SEVERITY_MEDIUM, "MEDIUM" >>,
      << DEBUG_SEVERITY_LOW, "LOW" >>,
      << DEBUG_SEVERITY_NOTIFICATION, "NOTIFICATION" >> }
SourceNames ==
    { << DEBUG_SOURCE_API, "API" >>,
      << DEBUG_SOURCE_WINDOW_SYSTEM, "WINDOW_SYSTEM" >>,
      << DEBUG_SOURCE_SHADER_COMPILER, "SHADER_COMPILER" >>,
      << DEBUG_SOURCE_THIRD_PARTY, "THIRD_PARTY" >>,
      << DEBUG_SOURCE_APPLICATION, "APPLICATION" >>,
      << DEBUG_SOURCE_OTHER, "OTHER" >> }
TypeNames ==
    { << DEBUG_TYPE_ERROR, "ERROR" >>,
      << DEBUG_TYPE_DEPRECATED_BEHAVIOR, "DEPRECATED_BEHAVIOR" >>,
      << DEBUG_TYPE_UNDEFINED_BEHAVIOR, "UNDEFINED_BEHAVIOR" >>,
      << DEBUG_TYPE_PORTABILITY, "PORTABILITY" >>,
      << DEBUG_TYPE_PERFORMANCE, "PERFORMANCE" >>,
      << DEBUG_TYPE_MARKER, "MARKER" >>,
      << DEBUG_TYPE_PUSH_GROUP, "PUSH_GROUP" >>,
      << DEBUG_TYPE_POP_GROUP, "POP_GROUP" >>,
      << DEBUG_TYPE_OTHER, "OTHER" >> }
\* name is what the table documents for code: the paired name, or "unknown"
\* for a code the table does not list
Documented(table, code, name) ==
    IF \E e \in table : e[1] = code
    THEN << code, name >> \in table
    ELSE name = "unknown"

\* C10: for every (source, type, id, severity) the printed line names the
\* severity, the source and the type by their documented names, each decided
\* by its own code alone, and by "unknown" for any other code; the callback
\* completes for every input.
C10_DebugDecoding ==
    /\ Cardinality(SeverityNames) = 4
    /\ Cardinality(SourceNames) = 6
    /\ Cardinality(TypeNames) = 9
    /\ printed = None => ENABLED default_debug_callback
    /\ printed # None =>
        /\ Len(printed[1]) = 10
        /\ Documented(SeverityNames, dbgIn.severity, printed[1][4])
        /\ Documented(SourceNames, dbgIn.source, printed[1][6])
        /\ Documented(TypeNames, dbgIn.type_, printed[1][8])
        /\ printed[1][10] = dbgIn.id

\* a severity that is a source code is unknown, beside a documented source
\* and an undocumented type
C10_Witness ==
    /\ printed # None
    /\ dbgIn.severity = DEBUG_SOURCE_API
    /\ dbgIn.source = DEBUG_SOURCE_API
    /\ dbgIn.type_ = 0
    /\ printed[1][4] = "unknown"
    /\ printed[1][6] = "API"
    /\ printed[1][8] = "unknown"

(***************************************************************************)
(* Claim about the order of the acquisition steps, checked under Spec.     *)
(***************************************************************************)
\* the operations of the platform calls made so far, in order
Ops == [i \in DOMAIN calls |-> calls[i].op]
\* s is an initial part of t
IsPrefix(s, t) == Len(s) <= Len(t) /\ \A i \in DOMAIN s : s[i] = t[i]
\* the steps of an acquisition whose default context request succeeds; the
\* second window_handle is the one surface_attributes makes for the surface
StepsOpenGl ==
    << "display_handle", "window_handle", "create_display", "find_configs",
       "window_handle", "create_window_surface", "create_context",
       "make_current", "from_loader_function", "debug_message_callback" >>
\* the steps of an acquisition that falls back to GL ES
StepsGles ==
    << "display_handle", "window_handle", "create_display", "find_configs",
       "window_handle", "create_window_surface", "create_context",
       "create_context_gles", "make_current", "from_loader_function",
       "debug_message_callback" >>

\* C11: the steps of every acquisition occur in the order handle resolution,
\* display creation, configuration enumeration and selection, surface
\* creation, context creation (default, then GL ES only after the default
\* failed), make-current, entry-point loading, callback registration, each
\* after the one before it succeeded; the surface exists before any context
\* request, the context is current before the entry points are loaded, and
\* the callback is registered only after the loading.
C11_StepOrder ==
    /\ IsPrefix(Ops, StepsOpenGl) \/ IsPrefix(Ops, StepsGles)
    /\ \A i \in DOMAIN calls :
        i < Len(calls) =>
            \/ calls[i].ok /\ ~calls[i].empty
            \/ /\ calls[i].op = "create_context"
               /\ calls[i + 1].op = "create_context_gles"
    /\ \A i \in CallsOf("create_context_gles") : ~calls[i - 1].ok
    /\ \A i \in CallsOf("make_current") :
        calls[i - 1].op = "create_context" => calls[i - 1].ok
    /\ context # None => surface # None
    /\ glow.loaded => (context # None /\ context[1].current)
    /\ glow.debug_callback # "none" => glow.loaded
    /\ result = "Ok" => (Ops = StepsOpenGl \/ Ops = StepsGles)

\* an acquisition went through all eleven steps, the GL ES fallback among
\* them, and returned Ok
C11_Witness ==
    /\ result = "Ok"
    /\ Ops = StepsGles
    /\ ~calls[7].ok
    /\ glow.debug_callback # "none"

(***************************************************************************)
(* Claim about zero initial dimensions, checked under Spec.                *)
(***************************************************************************)
\* the call was given a zero width or a zero height
ZeroDimensions == args # None /\ (args[1].width = 0 \/ args[1].height = 0)

\* C12: a call with a zero width or height never returns Ok, as a no-op or
\* otherwise, and its dimensions produce no Error: once the platform calls
\* up to the window-handle lookup of surface_attributes have succeeded and a
\* configuration is selected, the call panics there, after the display was
\* created and before any surface or context is created; an Error it returns
\* is that of a platform call that failed before that point.  Hence no call
\* returns Ok with a zero-sized surface, and with the guard of resize the
\* surface of a live result never has a zero width or height.
C12_ZeroDimensionsPanic ==
    /\ ZeroDimensions =>
        /\ result # "Ok"
        /\ pc # "live"
        /\ surface = None
        /\ context = None
        /\ CallsOf("create_window_surface") = {}
        /\ CallsOf("create_context") = {}
        /\ Len(calls) <= 5
        /\ result \in {"Rwh", "Glutin"} => ~LastCall.ok
        /\ (Len(calls) = 5 /\ LastCall.ok) =>
            /\ result = "panic"
            /\ pc = "panicked"
            /\ calls[3].op = "create_display"
            /\ calls[3].ok
            /\ calls[4].op = "find_configs"
            /\ calls[4].ok
            /\ ~calls[4].empty
        /\ (result = "panic" /\ ~LastCall.empty) =>
            (Len(calls) = 5 /\ LastCall.op = "window_handle" /\ LastCall.ok)
    /\ pc = "live" =>
        /\ ~ZeroDimensions
        /\ surface[1].width # 0
        /\ surface[1].height # 0

\* a call with a zero height panicked in surface_attributes, after a
\* configuration was selected
C12_Witness ==
    /\ result = "panic"
    /\ args[1].width = 2
    /\ args[1].height = 0
    /\ Len(calls) = 5
    /\ LastCall.op = "window_handle"
    /\ LastCall.ok
    /\ ~calls[4].empty

==========================================================================
